---- MODULE Spec2Model ----
(***************************************************************************)
(* A model of goose-eggs: the Validate builder, validate_page and the      *)
(* helpers it calls, the static-asset functions (src/src/lib.rs), the      *)
(* random text of src/src/text.rs and the form helpers of                  *)
(* src/src/drupal.rs.                                                      *)
(*                                                                         *)
(* Strings are sequences of tokens.  A token is one character ("a", "A",   *)
(* "\n", "0xE9" for a byte that is not ASCII) or one of the literal pieces *)
(* the regular expressions of lib.rs look for ("<head", "</head>",         *)
(* "<title>", "</title>"), so that matching a literal is matching one      *)
(* token.  Header names are plain strings.                                 *)
(* Option<T> is a sequence of length 0 (None) or 1 (Some).                 *)
(***************************************************************************)
EXTENDS Integers, Sequences, FiniteSets, TLC

VARIABLES
    builder,    \* the ValidateBuilder under construction
    validate,   \* Option<Validate>: what build() returned
    goose,      \* Option<GooseResponse>: the response handed to validate_page
    failures,   \* the tags of the set_failure calls validate_page made
    result,     \* Option<Result<String, TransactionError>> of validate_page
    call,       \* the most recent call: [op, arg]
    pc,         \* "building", "built", "validated", or "pure" (function runs)
    args,       \* the arguments of a pure function run
    ret,        \* Option<its return value>
    requests    \* the static-asset requests made so far: [url, name]

vars ==
    <<builder, validate, goose, failures, result, call, pc, args, ret,
      requests>>

----------------------------------------------------------------------------
(* Bounds of the model. *)

MaxTexts == 2
MaxHeaders == 2
MaxHtmlLen == 4
MaxTitleLen == 2

----------------------------------------------------------------------------
(* Option, Result and string helpers. *)

None == << >>
Some(x) == <<x>>

Ok(v) == [ok |-> TRUE, val |-> v]
Err(e) == [ok |-> FALSE, val |-> <<e>>]

SeqsUpTo(S, n) == UNION {[1..k -> S] : k \in 0..n}

\* str::contains: the pattern occurs as a contiguous run of the string.
Contains(s, pat) ==
    \E i \in 0..(Len(s) - Len(pat)) : SubSeq(s, i + 1, i + Len(pat)) = pat

\* The characters that are not visible ASCII.
NonAscii == {"0xE9"}

\* u8::to_ascii_lowercase on each character: only A-Z change.
AsciiLower(c) ==
    CASE c = "A" -> "a"
      [] c = "B" -> "b"
      [] OTHER -> c

to_ascii_lowercase(s) == [i \in 1..Len(s) |-> AsciiLower(s[i])]

\* html.replace('\n', "")
StripNewlines(s) == SelectSeq(s, LAMBDA c : c # "\n")

\* The index of the first occurrence of token t in s at or after from, or 0.
FirstAt(s, t, from) ==
    IF \E i \in from..Len(s) : s[i] = t
    THEN CHOOSE i \in from..Len(s) :
            s[i] = t /\ \A j \in from..(i - 1) : s[j] # t
    ELSE 0

----------------------------------------------------------------------------
(* get_html_header, get_title, valid_title, valid_text. *)

\* Regex <head(.*?)</head> on the html without its line feeds: the leftmost
\* "<head" that a "</head>" follows, up to the nearest such "</head>";
\* capture 0, the whole match.
get_html_header(html) ==
    LET line == StripNewlines(html)
        i == FirstAt(line, "<head", 1)
        j == IF i = 0 THEN 0 ELSE FirstAt(line, "</head>", i + 1)
    IN  IF j = 0 THEN None ELSE Some(SubSeq(line, i, j))

\* Regex <title>(.*?)</title> on the text without its line feeds: capture 1,
\* what stands between the two tags.
get_title(html) ==
    LET line == StripNewlines(html)
        i == FirstAt(line, "<title>", 1)
        j == IF i = 0 THEN 0 ELSE FirstAt(line, "</title>", i + 1)
    IN  IF j = 0 THEN None ELSE Some(SubSeq(line, i + 1, j - 1))

valid_title_case_sensitive(html, title) ==
    LET h == get_html_header(html)
        html_header == IF h = None THEN << >> ELSE h[1]
        t == get_title(html_header)
        html_title == IF t = None THEN << >> ELSE t[1]
    IN  Contains(html_title, title)

valid_title(html, title) ==
    LET h == get_html_header(html)
        html_header == IF h = None THEN << >> ELSE h[1]
        t == get_title(html_header)
        html_title == IF t = None THEN << >> ELSE t[1]
    IN  Contains(to_ascii_lowercase(html_title), to_ascii_lowercase(title))

valid_text_ignore_case(html, text) ==
    Contains(to_ascii_lowercase(html), to_ascii_lowercase(text))

valid_text(html, text) == Contains(html, text)

----------------------------------------------------------------------------
(* header_is_set, valid_header_value.  A HeaderMap is a function from the  *)
(* header names to Option<value>.                                          *)

header_is_set(headers, header) ==
    header \in DOMAIN headers /\ headers[header] # None

\* HeaderValue::to_str: Err unless every character is visible ASCII.
to_str(v) ==
    IF \E i \in 1..Len(v) : v[i] \in NonAscii THEN None ELSE Some(v)

valid_header_value(headers, header) ==
    IF header[1] = ""
    THEN FALSE
    ELSE IF header_is_set(headers, header[1])
         THEN IF header[2] = << >>
              THEN FALSE
              ELSE LET s == to_str(headers[header[1]][1])
                       header_value == IF s = None THEN << >> ELSE s[1]
                   IN  Contains(header_value, header[2])
         ELSE FALSE

----------------------------------------------------------------------------
(* ValidateBuilder. *)

new == [status |-> None, title |-> None, texts |-> << >>,
        headers |-> << >>, redirect |-> None]

status(self, s) == [self EXCEPT !.status = Some(<<FALSE, s>>)]

not_status(self, s) == [self EXCEPT !.status = Some(<<TRUE, s>>)]

title(self, t) == [self EXCEPT !.title = Some(t)]

text(self, x) == [self EXCEPT !.texts = Append(@, x)]

texts(self, xs) == [self EXCEPT !.texts = xs]

header(self, h) == [self EXCEPT !.headers = Append(@, <<h, << >> >>)]

header_value(self, h, v) == [self EXCEPT !.headers = Append(@, <<h, v>>)]

redirect(self, r) == [self EXCEPT !.redirect = Some(r)]

build(self) == [status |-> self.status, title |-> self.title,
                texts |-> self.texts, headers |-> self.headers,
                redirect |-> self.redirect]

none_with_status == build(status(new, 200))

\* Validate::none(): a builder that was given nothing, built.
none == build(new)

----------------------------------------------------------------------------
(* validate_page.  Its run is a chain of stages over an accumulator:       *)
(* done (the function has returned), failures (the set_failure calls so    *)
(* far) and result (what it returned).                                     *)

\* GooseUser::set_failure marks the request failed, and returns
\* Err(TransactionError::RequestFailed) to its caller.
set_failure(tag) == Err("RequestFailed")

\* response.text().await.unwrap_or_else(|_| "".to_string())
text_or_empty(g) == IF g.body = None THEN << >> ELSE g.body[1]

\* user.set_failure(..)? without the return that follows it.
fail_and_go_on(acc, tag, html) ==
    [acc EXCEPT !.failures = Append(@, tag)]

\* let _ = user.set_failure(..); return Ok(html);
fail_and_return_ok(acc, tag, html) ==
    [done |-> TRUE, failures |-> Append(acc.failures, tag), result |-> Ok(html)]

\* user.set_failure(..)?; return Ok(html);
fail(acc, tag, html) ==
    LET r == set_failure(tag)
    IN  [done |-> TRUE,
         failures |-> Append(acc.failures, tag),
         result |-> IF r.ok THEN Ok(html) ELSE r]

check_redirect_swapped(acc, g, v) ==
    IF acc.done \/ v.redirect = None THEN acc
    ELSE IF g.redirected = v.redirect[1]
         THEN IF v.redirect[1]
              THEN fail(acc, "did not redirect", text_or_empty(g))
              ELSE fail(acc, "redirected unexpectedly", text_or_empty(g))
         ELSE acc

check_redirect(acc, g, v) ==
    IF acc.done \/ v.redirect = None THEN acc
    ELSE IF g.redirected # v.redirect[1]
         THEN IF v.redirect[1]
              THEN fail(acc, "did not redirect", text_or_empty(g))
              ELSE fail(acc, "redirected unexpectedly", text_or_empty(g))
         ELSE acc

check_status_ignoring_inverse(acc, g, v) ==
    IF acc.done \/ v.status = None THEN acc
    ELSE IF g.status # v.status[1][2]
         THEN fail(acc, "response status !=", text_or_empty(g))
         ELSE acc

check_status(acc, g, v) ==
    IF acc.done \/ v.status = None THEN acc
    ELSE LET inverse == v.status[1][1]
             s == v.status[1][2]
         IN  IF inverse /\ g.status = s
             THEN fail(acc, "response status ==", text_or_empty(g))
             ELSE IF ~inverse /\ g.status # s
                  THEN fail(acc, "response status !=", text_or_empty(g))
                  ELSE acc

RECURSIVE check_headers(_, _, _, _)
check_headers(acc, g, v, i) ==
    IF acc.done \/ i > Len(v.headers) THEN acc
    ELSE LET h == v.headers[i]
             a1 == IF ~header_is_set(g.headers, h[1])
                   THEN fail(acc, "header not included in response",
                             text_or_empty(g))
                   ELSE acc
             a2 == IF ~a1.done /\ h[2] # << >>
                      /\ ~valid_header_value(g.headers, h)
                   THEN fail(a1, "header does not contain expected value",
                             text_or_empty(g))
                   ELSE a1
         IN  check_headers(a2, g, v, i + 1)

check_title_case_sensitive(acc, g, v, html) ==
    IF acc.done \/ v.title = None THEN acc
    ELSE IF ~valid_title_case_sensitive(html, v.title[1])
         THEN fail(acc, "title not found", html)
         ELSE acc

check_title(acc, g, v, html) ==
    IF acc.done \/ v.title = None THEN acc
    ELSE IF ~valid_title(html, v.title[1])
         THEN fail(acc, "title not found", html)
         ELSE acc

RECURSIVE check_texts(_, _, _, _, _)
check_texts(acc, g, v, html, i) ==
    IF acc.done \/ i > Len(v.texts) THEN acc
    ELSE LET a1 == IF ~valid_text(html, v.texts[i])
                   THEN fail(acc, "text not found on page", html)
                   ELSE acc
         IN  check_texts(a1, g, v, html, i + 1)

\* match response.text().await { Ok(html) => .. Ok(html), Err(e) => .. }
check_body(acc, g, v) ==
    IF acc.done THEN acc
    ELSE IF g.body = None
         THEN LET a == fail(acc, "failed to parse page", << >>)
              IN  IF a.done THEN a ELSE [a EXCEPT !.done = TRUE, !.result = Ok(<< >>)]
         ELSE LET html == g.body[1]
                  a == check_texts(check_title(acc, g, v, html), g, v, html, 1)
              IN  IF a.done THEN a
                  ELSE [a EXCEPT !.done = TRUE, !.result = Ok(html)]

validate_page(g, v) ==
    LET start == [done |-> FALSE, failures |-> << >>, result |-> Ok(<< >>)]
    IN  IF g.response = "Err"
        THEN LET a == fail(start, "no response from server", << >>)
             IN  IF a.done THEN a ELSE [a EXCEPT !.done = TRUE, !.result = Ok(<< >>)]
        ELSE check_body(
                 check_headers(
                     check_status(check_redirect(start, g, v), g, v),
                     g, v, 1),
                 g, v)

----------------------------------------------------------------------------
(* The inputs the model draws from. *)

StatusInputs == {200}
Statuses == {200, 404}
TitleInputs == {<<"a", "b">>}
TextInputs == {<<"a", "b">>, <<"A", "b">>}
HeaderNames == {"foo", "bar"}
HeaderValueInputs == {<<"foo", <<"b">> >>}

\* A page with its title in the head; a page whose title is outside any
\* head and in lower case; a page with neither.
PageHead == <<"<head", "<title>", "A", "b", "</title>", "</head>", "a", "b">>
PageBare == <<"<title>", "a", "b", "</title>">>
PagePlain == <<"A", "B">>
Bodies == {PageHead, PageBare, PagePlain}

HeaderMaps ==
    { [foo |-> None, bar |-> None],
      [foo |-> Some(<<"b">>), bar |-> None],
      [foo |-> Some(<<"x">>), bar |-> Some(<<"b">>)],
      [foo |-> Some(<<"b", "0xE9">>), bar |-> None],
      [foo |-> None, bar |-> Some(<<"b">>)] }

\* A GooseResponse: response is Ok or Err; body is None when the body of an
\* Ok response cannot be read.
GooseResponses ==
    { [response |-> "Err", redirected |-> FALSE, status |-> 0,
       headers |-> [foo |-> None, bar |-> None], body |-> None] }
    \cup
    [response : {"Ok"}, redirected : BOOLEAN, status : Statuses,
     headers : HeaderMaps, body : {None} \cup {Some(b) : b \in Bodies}]

NoCall == [op |-> "new", arg |-> << >>]

----------------------------------------------------------------------------
(* The load test: build a Validate, then validate one response with it. *)

Init ==
    /\ builder = new
    /\ validate = None
    /\ goose = None
    /\ failures = << >>
    /\ result = None
    /\ call = NoCall
    /\ pc = "building"
    /\ args = << >>
    /\ ret = None
    /\ requests = << >>

Building(b, op, arg) ==
    /\ pc = "building"
    /\ builder' = b
    /\ call' = [op |-> op, arg |-> arg]
    /\ UNCHANGED <<validate, goose, failures, result, pc, args, ret, requests>>

Status == \E s \in StatusInputs : Building(status(builder, s), "status", s)

NotStatus ==
    \E s \in StatusInputs : Building(not_status(builder, s), "not_status", s)

Title == \E t \in TitleInputs : Building(title(builder, t), "title", t)

Text ==
    /\ Len(builder.texts) < MaxTexts
    /\ \E x \in TextInputs : Building(text(builder, x), "text", x)

Texts ==
    \E xs \in SeqsUpTo(TextInputs, MaxTexts) :
        Building(texts(builder, xs), "texts", xs)

Header ==
    /\ Len(builder.headers) < MaxHeaders
    /\ \E h \in HeaderNames : Building(header(builder, h), "header", h)

HeaderValue ==
    /\ Len(builder.headers) < MaxHeaders
    /\ \E hv \in HeaderValueInputs :
          Building(header_value(builder, hv[1], hv[2]), "header_value", hv)

Redirect == \E r \in BOOLEAN : Building(redirect(builder, r), "redirect", r)

Build ==
    /\ pc = "building"
    /\ validate' = Some(build(builder))
    /\ pc' = "built"
    /\ call' = [op |-> "build", arg |-> << >>]
    /\ UNCHANGED <<builder, goose, failures, result, args, ret, requests>>

ValidateNone ==
    /\ pc = "building"
    /\ builder = new
    /\ validate' = Some(none)
    /\ pc' = "built"
    /\ call' = [op |-> "none", arg |-> << >>]
    /\ UNCHANGED <<builder, goose, failures, result, args, ret, requests>>

ValidatePage ==
    /\ pc = "built"
    /\ \E g \in GooseResponses :
          LET r == validate_page(g, validate[1])
          IN  /\ goose' = Some(g)
              /\ failures' = r.failures
              /\ result' = Some(r.result)
    /\ pc' = "validated"
    /\ call' = [op |-> "validate_page", arg |-> << >>]
    /\ UNCHANGED <<builder, validate, args, ret, requests>>

Next ==
    \/ Status
    \/ NotStatus
    \/ Title
    \/ Text
    \/ Texts
    \/ Header
    \/ HeaderValue
    \/ Redirect
    \/ Build
    \/ ValidateNone
    \/ ValidatePage

Spec == Init /\ [][Next]_vars

----------------------------------------------------------------------------
(* valid_title on its own: every html of at most MaxHtmlLen tokens, the    *)
(* pages whose head holds a title of up to MaxTitleLen + 1 characters, and *)
(* every title text of at most MaxTitleLen characters.                     *)

HtmlAlphabet == {"<head", "</head>", "<title>", "</title>", "\n", "a", "A"}
TitleAlphabet == {"a", "A", "\n"}

TitledPages ==
    { <<"<head", "<title>">> \o t \o <<"</title>", "</head>">> :
        t \in SeqsUpTo(TitleAlphabet, MaxTitleLen + 1) }

HtmlInputs == SeqsUpTo(HtmlAlphabet, MaxHtmlLen) \cup TitledPages

InitTitle ==
    /\ builder = new
    /\ validate = None
    /\ goose = None
    /\ failures = << >>
    /\ result = None
    /\ call = NoCall
    /\ pc = "pure"
    /\ args \in HtmlInputs \X SeqsUpTo(TitleAlphabet, MaxTitleLen)
    /\ ret = None
    /\ requests = << >>

RunValidTitle ==
    /\ pc = "pure"
    /\ ret = None
    /\ ret' = Some(valid_title(args[1], args[2]))
    /\ call' = [op |-> "valid_title", arg |-> << >>]
    /\ UNCHANGED <<builder, validate, goose, failures, result, pc, args,
                   requests>>

NextTitle == RunValidTitle

SpecTitle == InitTitle /\ [][NextTitle]_vars

----------------------------------------------------------------------------
(* What the claims speak of. *)

V == validate[1]
G == goose[1]
R == result[1]

Validated == pc = "validated"

\* The page loads: the response is Ok and its body can be read.
Loaded == G.response = "Ok" /\ G.body # None

RedirectPasses(v, g) == v.redirect = None \/ g.redirected = v.redirect[1]

StatusPasses(v, g) ==
    \/ v.status = None
    \/ v.status[1][1] /\ g.status # v.status[1][2]
    \/ ~v.status[1][1] /\ g.status = v.status[1][2]

HeaderPasses(h, g) ==
    /\ header_is_set(g.headers, h[1])
    /\ h[2] = << >> \/ valid_header_value(g.headers, h)

HeadersPass(v, g) == \A i \in 1..Len(v.headers) : HeaderPasses(v.headers[i], g)

TitlePasses(v, html) == v.title = None \/ valid_title(html, v.title[1])

TextsPass(v, html) == \A i \in 1..Len(v.texts) : valid_text(html, v.texts[i])

AllChecksPass(v, g) ==
    /\ RedirectPasses(v, g)
    /\ StatusPasses(v, g)
    /\ HeadersPass(v, g)
    /\ TitlePasses(v, g.body[1])
    /\ TextsPass(v, g.body[1])

\* x occurs in s, character for character.
OccursVerbatim(s, x) ==
    \E i \in 1..(Len(s) + 1) :
        \A k \in 1..Len(x) : i + k - 1 <= Len(s) /\ s[i + k - 1] = x[k]

StatusTags == {"response status ==", "response status !="}
RedirectTags == {"did not redirect", "redirected unexpectedly"}

Reported(tags) == \E i \in 1..Len(failures) : failures[i] \in tags

----------------------------------------------------------------------------
(* C1: one call to validate_page calls set_failure at most once, whatever  *)
(* the Validate and the response, even when several checks would fail.     *)

C1_AtMostOneFailure == Validated => Len(failures) <= 1

\* The redirect, the status and a header check would each fail; one failure
\* is reported.
C1_Witness ==
    /\ Validated
    /\ G.response = "Ok"
    /\ ~RedirectPasses(V, G)
    /\ ~StatusPasses(V, G)
    /\ ~HeadersPass(V, G)
    /\ Len(failures) = 1

(* C2: when the page loads and every configured check passes,              *)
(* validate_page reports no failure and returns Ok(body), the body as it   *)
(* was received.                                                           *)

C2_AllPassReturnsBody ==
    (Validated /\ Loaded /\ AllChecksPass(V, G))
        => failures = << >> /\ R = Ok(G.body[1])

C2_Witness ==
    /\ Validated
    /\ Loaded
    /\ V.redirect # None
    /\ V.status # None
    /\ V.title # None
    /\ Len(V.texts) = 2
    /\ \E i \in 1..Len(V.headers) : V.headers[i][2] # << >>
    /\ AllChecksPass(V, G)
    /\ R = Ok(G.body[1])
    /\ G.body[1] # << >>

(* C3: when the page loads and some configured check fails, validate_page  *)
(* returns the Err of the failure report, never Ok.                        *)

C3_FailedCheckReturnsErr ==
    (Validated /\ Loaded /\ ~AllChecksPass(V, G))
        => ~R.ok /\ R = Err("RequestFailed")

C3_Witness ==
    /\ Validated
    /\ Loaded
    /\ RedirectPasses(V, G) /\ StatusPasses(V, G) /\ HeadersPass(V, G)
    /\ TitlePasses(V, G.body[1])
    /\ ~TextsPass(V, G.body[1])
    /\ ~R.ok

(* C4: when the page does not load (the response is an error, or its body  *)
(* cannot be read), validate_page returns Ok with an empty String.         *)

C4_NotLoadedReturnsEmpty == (Validated /\ ~Loaded) => R = Ok(<< >>)

(* C5: header validation.  An entry added with header(name) passes iff the *)
(* response has a header called name; an entry added with                  *)
(* header_value(name, v), v not empty, passes iff the header is present    *)
(* and its value contains v.  A response failing an entry produces exactly *)
(* one reported failure.                                                   *)

ClaimedHeaderPasses(h, g) ==
    /\ h[1] \in DOMAIN g.headers
    /\ g.headers[h[1]] # None
    /\ h[2] # << >> => OccursVerbatim(g.headers[h[1]][1], h[2])

OnlyHeaders(v) ==
    v.redirect = None /\ v.status = None /\ v.title = None /\ v.texts = << >>

C5_HeaderValidation ==
    (Validated /\ Loaded) =>
        LET ok == \A i \in 1..Len(V.headers) : ClaimedHeaderPasses(V.headers[i], G)
        IN  /\ OnlyHeaders(V) => (failures = << >> <=> ok)
            /\ ~ok => Len(failures) = 1

(* C6: status validation.  With status(s) a failure is reported iff the    *)
(* response status differs from s, with not_status(s) iff it equals s;     *)
(* with neither, validate_page never reports a failure for the status.     *)

OnlyStatus(v) ==
    v.redirect = None /\ v.headers = << >> /\ v.title = None /\ v.texts = << >>

StatusMismatch(v, g) ==
    /\ v.status # None
    /\ IF v.status[1][1] THEN g.status = v.status[1][2]
                         ELSE g.status # v.status[1][2]

C6_StatusValidation ==
    (Validated /\ G.response = "Ok") =>
        /\ V.status = None => ~Reported(StatusTags)
        /\ (OnlyStatus(V) /\ Loaded) => (failures # << >> <=> StatusMismatch(V, G))
        /\ RedirectPasses(V, G) => (Reported(StatusTags) <=> StatusMismatch(V, G))
        /\ StatusMismatch(V, G) => failures # << >>

C6_Witness ==
    /\ Validated
    /\ Loaded
    /\ OnlyStatus(V)
    /\ V.status = Some(<<TRUE, 200>>)
    /\ G.status = 200
    /\ failures = <<"response status ==">>

(* C7: redirect validation.  With redirect(true) a failure is reported iff *)
(* the request was not redirected, with redirect(false) iff it was; with   *)
(* redirect unset the redirected flag is ignored.                          *)

OnlyRedirect(v) ==
    v.status = None /\ v.headers = << >> /\ v.title = None /\ v.texts = << >>

RedirectMismatch(v, g) == v.redirect # None /\ g.redirected # v.redirect[1]

C7_RedirectValidation ==
    (Validated /\ G.response = "Ok") =>
        /\ Reported(RedirectTags) <=> RedirectMismatch(V, G)
        /\ (OnlyRedirect(V) /\ Loaded) => (failures # << >> <=> RedirectMismatch(V, G))
        /\ V.redirect = None =>
              \A g \in GooseResponses :
                  (g.response = "Ok" /\ [g EXCEPT !.redirected = G.redirected] = G)
                      => validate_page(g, V) = validate_page(G, V)

C7_Witness ==
    /\ Validated
    /\ Loaded
    /\ OnlyRedirect(V)
    /\ V.redirect = Some(FALSE)
    /\ G.redirected
    /\ failures = <<"redirected unexpectedly">>

(* C9: text validation is case sensitive and cumulative.  Each text() call *)
(* adds its string to those already given, and the text check passes iff   *)
(* every one of them occurs in the body in its exact case.                 *)

TextCallAppends ==
    call'.op = "text" => builder'.texts = Append(builder.texts, call'.arg)

TextCheckExact ==
    (/\ Validated
     /\ Loaded
     /\ RedirectPasses(V, G) /\ StatusPasses(V, G) /\ HeadersPass(V, G)
     /\ TitlePasses(V, G.body[1]))
        => (failures = << >>
              <=> \A i \in 1..Len(V.texts) : OccursVerbatim(G.body[1], V.texts[i]))

C9_TextsCumulativeExact == []TextCheckExact /\ [][TextCallAppends]_vars

\* Two text() calls, "ab" then "Ab", made both strings checked: the body
\* holds "ab" but only "AB" in upper case, and the check failed.
C9_Witness ==
    /\ Validated
    /\ Loaded
    /\ V.texts = << <<"a", "b">>, <<"A", "b">> >>
    /\ OccursVerbatim(G.body[1], <<"a", "b">>)
    /\ ~OccursVerbatim(G.body[1], <<"A", "b">>)
    /\ failures = <<"text not found on page">>

(* C8: valid_title(html, t) is true iff the text between <title> and       *)
(* </title> inside the <head>..</head> section of html contains t, case    *)
(* ignored; a title outside the head, or no title, validates no t that is  *)
(* not empty.                                                              *)

SameLetter(c, d) == c = d \/ {c, d} = {"a", "A"} \/ {c, d} = {"b", "B"}

OccursIgnoringCase(s, x) ==
    \E i \in 1..(Len(s) + 1) :
        \A k \in 1..Len(x) :
            i + k - 1 <= Len(s) /\ SameLetter(s[i + k - 1], x[k])

\* The text of html between <title> and the next </title>, both inside the
\* first <head ..</head> section; empty when there is none.
TitleTextOf(html) ==
    LET hs == {i \in 1..Len(html) :
                  html[i] = "<head" /\ \E j \in (i + 1)..Len(html) : html[j] = "</head>"}
    IN  IF hs = {} THEN << >>
        ELSE LET h1 == CHOOSE i \in hs : \A j \in hs : i <= j
                 h2 == CHOOSE j \in (h1 + 1)..Len(html) :
                          /\ html[j] = "</head>"
                          /\ \A k \in (h1 + 1)..(j - 1) : html[k] # "</head>"
                 ts == {i \in h1..h2 :
                           /\ html[i] = "<title>"
                           /\ \E j \in (i + 1)..h2 : html[j] = "</title>"}
             IN  IF ts = {} THEN << >>
                 ELSE LET t1 == CHOOSE i \in ts : \A j \in ts : i <= j
                          t2 == CHOOSE j \in (t1 + 1)..h2 :
                                   /\ html[j] = "</title>"
                                   /\ \A k \in (t1 + 1)..(j - 1) : html[k] # "</title>"
                      IN  SubSeq(html, t1 + 1, t2 - 1)

C8_ValidTitle ==
    (pc = "pure" /\ call.op = "valid_title")
        => (ret[1] <=> OccursIgnoringCase(TitleTextOf(args[1]), args[2]))

\* What does hold: the same, of the html with its line feeds removed.
ValidTitleOfStrippedHtml ==
    (pc = "pure" /\ call.op = "valid_title")
        => (ret[1] <=>
               OccursIgnoringCase(TitleTextOf(StripNewlines(args[1])), args[2]))

(* C10: the builder supports the negative checks not_title(t), not_text(x) *)
(* and not_header(h): some Validate it builds passes exactly the responses *)
(* whose title does not contain t, whose body does not contain x and which *)
(* have no header named h.                                                 *)

\* One more call on a builder of the set bs, within the bounds.
OneMoreCall(bs) ==
    bs \cup {status(b, s) : b \in bs, s \in StatusInputs}
       \cup {not_status(b, s) : b \in bs, s \in StatusInputs}
       \cup {title(b, t) : b \in bs, t \in TitleInputs}
       \cup {text(b, x) : b \in {c \in bs : Len(c.texts) < MaxTexts},
                          x \in TextInputs}
       \cup {texts(b, xs) : b \in bs, xs \in SeqsUpTo(TextInputs, MaxTexts)}
       \cup {header(b, h) : b \in {c \in bs : Len(c.headers) < MaxHeaders},
                            h \in HeaderNames}
       \cup {header_value(b, hv[1], hv[2]) :
                b \in {c \in bs : Len(c.headers) < MaxHeaders},
                hv \in HeaderValueInputs}
       \cup {redirect(b, r) : b \in bs, r \in BOOLEAN}

RECURSIVE Buildable(_)
Buildable(bs) ==
    LET more == OneMoreCall(bs)
    IN  IF more = bs THEN {build(b) : b \in bs} ELSE Buildable(more)

LoadedResponses == {g \in GooseResponses : g.response = "Ok" /\ g.body # None}

IsNotTitleCheck(v, t) ==
    \A g \in LoadedResponses :
        validate_page(g, v).failures = << >> <=> ~valid_title(g.body[1], t)

IsNotTextCheck(v, x) ==
    \A g \in LoadedResponses :
        validate_page(g, v).failures = << >> <=> ~valid_text(g.body[1], x)

IsNotHeaderCheck(v, h) ==
    \A g \in LoadedResponses :
        validate_page(g, v).failures = << >> <=> ~header_is_set(g.headers, h)

\* From a new builder, calls lead to a Validate of each negative kind.
C10_NegativeChecks ==
    (pc = "building" /\ builder = new) =>
        LET vs == Buildable({builder})
        IN  /\ \E t \in TitleInputs : \E v \in vs : IsNotTitleCheck(v, t)
            /\ \E x \in TextInputs : \E v \in vs : IsNotTextCheck(v, x)
            /\ \E h \in HeaderNames : \E v \in vs : IsNotHeaderCheck(v, h)

\* The calls the builder has do lead to the positive checks.
C10_PositiveChecks ==
    (pc = "building" /\ builder = new) =>
        LET vs == Buildable({builder})
        IN  /\ \E t \in TitleInputs : \E v \in vs : \A g \in LoadedResponses :
                  validate_page(g, v).failures = << >> <=> valid_title(g.body[1], t)
            /\ \E x \in TextInputs : \E v \in vs : \A g \in LoadedResponses :
                  validate_page(g, v).failures = << >> <=> valid_text(g.body[1], x)
            /\ \E h \in HeaderNames : \E v \in vs : \A g \in LoadedResponses :
                  validate_page(g, v).failures = << >> <=> header_is_set(g.headers, h)

----------------------------------------------------------------------------
\* C11: Validate::none() holds no status, title, texts, headers or redirect
\* check, and validate_page with it reports no failure and returns the body
\* of every response that loads.
C11_NoneValidatesNothing ==
    /\ none.status = None
    /\ none.title = None
    /\ none.texts = << >>
    /\ none.headers = << >>
    /\ none.redirect = None
    /\ (Validated /\ V = none /\ Loaded) =>
          failures = << >> /\ R = Ok(G.body[1])

\* A redirected 404 page without headers, validated with Validate::none().
C11_Witness ==
    /\ Validated
    /\ V = none
    /\ Loaded
    /\ G.status = 404
    /\ G.redirected
    /\ G.headers.foo = None
    /\ R = Ok(G.body[1])

----------------------------------------------------------------------------
(* Static assets: valid_local_uri, get_src_elements, get_css_elements and  *)
(* load_static_elements.                                                   *)
(*                                                                         *)
(* The tokens of a page with assets: the attribute openings "src=\"",      *)
(* "SRC=\"" and "href=\"", the double quote, a space, a line feed, and the *)
(* pieces of a URL: "http://", a host ("example.com", "other.com", the     *)
(* subdomain prefix "sub."), "/", "?", the names "a", "d", "x", "v=1",     *)
(* "w=2", the extensions ".js" and ".css", "&" and its HTML encoding       *)
(* "&amp;".                                                                *)

MaxAssets == 2

\* The index of the first token of s at or after from that is in T, or 0.
FirstIn(s, T, from) ==
    IF \E i \in from..Len(s) : s[i] \in T
    THEN CHOOSE i \in from..Len(s) :
            s[i] \in T /\ \A j \in from..(i - 1) : s[j] \notin T
    ELSE 0

\* user.base_url.host_str(): the host of HOST, "http://example.com".
BaseHost == <<"example.com">>

\* (?i)src=" and (?i)href=" match in either case.
SrcAttrs == {"src=\"", "SRC=\""}
HrefAttrs == {"href=\"", "HREF=\""}

\* The tokens that end with a double quote, and what precedes that quote.
QuoteTokens == {"\""} \cup SrcAttrs \cup HrefAttrs

BeforeQuote(t) ==
    CASE t = "src=\"" -> <<"src=">>
      [] t = "SRC=\"" -> <<"SRC=">>
      [] t = "href=\"" -> <<"href=">>
      [] t = "HREF=\"" -> <<"HREF=">>
      [] OTHER -> << >>

\* The bytes http::Uri accepts nowhere: a space, "<", ">", a line feed.
UriInvalid == {" ", "<", ">", "\n"}

\* str::parse::<Uri>(): None for Err, else the host of the Uri (an Option).
\* A text that starts with "/" is a path and has no host; after a scheme
\* the authority runs to the first "/" or "?"; a text with neither is an
\* authority and nothing else, so it is an Err when a "/" or "?" follows
\* the authority, and a Uri whose host is the whole text otherwise.
parse_uri(uri) ==
    IF uri = << >> \/ \E i \in 1..Len(uri) : uri[i] \in UriInvalid
    THEN None
    ELSE IF uri[1] = "/"
    THEN Some([host |-> None])
    ELSE LET scheme == uri[1] = "http://"
             rest == IF scheme THEN Tail(uri) ELSE uri
             d == FirstIn(rest, {"/", "?"}, 1)
             authority == IF d = 0 THEN rest ELSE SubSeq(rest, 1, d - 1)
         IN  IF scheme
             THEN IF authority = << >>
                  THEN None
                  ELSE Some([host |-> Some(authority)])
             ELSE IF d # 0
                  THEN None
                  ELSE Some([host |-> Some(authority)])

valid_local_uri(uri) ==
    LET parsed == parse_uri(uri)
    IN  IF parsed # None
        THEN IF parsed[1].host # None
             THEN parsed[1].host[1] = BaseHost
             ELSE TRUE
        ELSE parse_uri(<<"/">> \o uri) # None

\* captures_iter of (?i)src="(.*?)": from each src=" in turn, the text up to
\* the nearest double quote, when no line feed stands in between ("." does
\* not match a line feed); the search resumes after that quote.
RECURSIVE src_captures(_, _)
src_captures(html, from) ==
    LET i == FirstIn(html, SrcAttrs, from)
        j == IF i = 0 THEN 0 ELSE FirstIn(html, QuoteTokens, i + 1)
        n == IF i = 0 THEN 0 ELSE FirstAt(html, "\n", i + 1)
    IN  IF i = 0 \/ j = 0
        THEN << >>
        ELSE IF n # 0 /\ n < j
        THEN src_captures(html, i + 1)
        ELSE <<SubSeq(html, i + 1, j - 1) \o BeforeQuote(html[j])>>
             \o src_captures(html, j + 1)

\* captures_iter of (?i)href="(.*?\.css.*?)": from each href=" in turn, the
\* text through the nearest ".css" and on to the nearest double quote after
\* it, when no line feed stands in between; "." matches a double quote, so
\* the text may run over the end of the attribute.
RECURSIVE css_captures(_, _)
css_captures(html, from) ==
    LET i == FirstIn(html, HrefAttrs, from)
        k == IF i = 0 THEN 0 ELSE FirstAt(html, ".css", i + 1)
        j == IF k = 0 THEN 0 ELSE FirstIn(html, QuoteTokens, k + 1)
        n == IF i = 0 THEN 0 ELSE FirstAt(html, "\n", i + 1)
    IN  IF i = 0
        THEN << >>
        ELSE IF j = 0 \/ (n # 0 /\ n < j)
        THEN css_captures(html, i + 1)
        ELSE <<SubSeq(html, i + 1, j - 1) \o BeforeQuote(html[j])>>
             \o css_captures(html, j + 1)

get_src_elements(html) == SelectSeq(src_captures(html, 1), valid_local_uri)

get_css_elements(html) == SelectSeq(css_captures(html, 1), valid_local_uri)

\* user.get_named(url, name), one per element: the src elements, then the
\* css elements.
load_static_elements(html) ==
    LET srcs == get_src_elements(html)
        csss == get_css_elements(html)
    IN  [i \in 1..Len(srcs) |->
            [url |-> srcs[i],
             name |-> IF Contains(srcs[i], <<".js">>)
                      THEN "static asset: js"
                      ELSE "static asset: img"]]
        \o
        [i \in 1..Len(csss) |->
            [url |-> csss[i], name |-> "static asset: css"]]

validate_and_load_always(g, v) ==
    LET r == validate_page(g, v)
    IN  [failures |-> r.failures,
         result |-> r.result,
         requests |-> IF g.body # None
                      THEN load_static_elements(g.body[1])
                      ELSE << >>]

\* validate_and_load_static_assets: validate_page, and on Ok(html) the
\* static elements of that html are loaded.
validate_and_load_static_assets(g, v) ==
    LET r == validate_page(g, v)
    IN  [failures |-> r.failures,
         result |-> r.result,
         requests |-> IF r.result.ok
                      THEN load_static_elements(r.result.val)
                      ELSE << >>]

----------------------------------------------------------------------------
(* The asset functions on their own: every page of at most MaxAssets       *)
(* src or href attributes, each followed by a space or a line feed.        *)

AssetUrls ==
    { <<"/", "a", ".js">>,
      <<"/", "a">>,
      <<"a", ".css">>,
      <<"d", "/", "a", ".css">>,
      <<"/", "a", ".css", "x">>,
      <<"http://", "example.com", "/", "a", ".css", "?", "v=1">>,
      <<"http://", "sub.", "example.com", "/", "a", ".js">>,
      <<"http://", "other.com", "/", "a", ".css">>,
      <<"/", "a", ".js", "?", "v=1", "&amp;", "w=2">>,
      <<"/", "a", ".js", "?", "v=1", "&", "w=2">> }

AssetAttrs == {"src=\"", "SRC=\"", "href=\""}

AssetElements ==
    { <<attr>> \o url \o <<"\"", sep>> :
        attr \in AssetAttrs, url \in AssetUrls, sep \in {" ", "\n"} }

RECURSIVE Flatten(_)
Flatten(ss) == IF ss = << >> THEN << >> ELSE Head(ss) \o Flatten(Tail(ss))

AssetHtmls == {Flatten(es) : es \in SeqsUpTo(AssetElements, MaxAssets)}

InitAssets ==
    /\ builder = new
    /\ validate = None
    /\ goose = None
    /\ failures = << >>
    /\ result = None
    /\ call = NoCall
    /\ pc = "pure"
    /\ args \in {<<html>> : html \in AssetHtmls}
    /\ ret = None
    /\ requests = << >>

RunGetSrcElements ==
    /\ pc = "pure"
    /\ ret = None
    /\ ret' = Some(get_src_elements(args[1]))
    /\ call' = [op |-> "get_src_elements", arg |-> << >>]
    /\ UNCHANGED <<builder, validate, goose, failures, result, pc, args,
                   requests>>

RunGetCssElements ==
    /\ pc = "pure"
    /\ ret = None
    /\ ret' = Some(get_css_elements(args[1]))
    /\ call' = [op |-> "get_css_elements", arg |-> << >>]
    /\ UNCHANGED <<builder, validate, goose, failures, result, pc, args,
                   requests>>

RunLoadStaticElements ==
    /\ pc = "pure"
    /\ ret = None
    /\ requests' = load_static_elements(args[1])
    /\ ret' = Some(<< >>)
    /\ call' = [op |-> "load_static_elements", arg |-> << >>]
    /\ UNCHANGED <<builder, validate, goose, failures, result, pc, args>>

NextAssets ==
    \/ RunGetSrcElements
    \/ RunGetCssElements
    \/ RunLoadStaticElements

SpecAssets == InitAssets /\ [][NextAssets]_vars

----------------------------------------------------------------------------
(* The load test with static assets: build a Validate, then validate one   *)
(* response with it and load the assets of its page.                       *)

AssetPage ==
    PageHead \o <<" ", "src=\"", "/", "a", ".js", "\"", "\n",
                  "href=\"", "d", "/", "a", ".css", "\"">>
AssetPageBare == <<"src=\"", "/", "a", "\"", " ", "a", "b">>
AssetBodies == {AssetPage, AssetPageBare, PagePlain}

AssetResponses ==
    { [response |-> "Err", redirected |-> FALSE, status |-> 0,
       headers |-> [foo |-> None, bar |-> None], body |-> None] }
    \cup
    [response : {"Ok"}, redirected : BOOLEAN, status : Statuses,
     headers : { [foo |-> None, bar |-> None],
                 [foo |-> Some(<<"b">>), bar |-> None] },
     body : {None} \cup {Some(b) : b \in AssetBodies}]

ValidateAndLoadStaticAssets ==
    /\ pc = "built"
    /\ \E g \in AssetResponses :
          LET r == validate_and_load_static_assets(g, validate[1])
          IN  /\ goose' = Some(g)
              /\ failures' = r.failures
              /\ result' = Some(r.result)
              /\ requests' = r.requests
    /\ pc' = "validated"
    /\ call' = [op |-> "validate_and_load_static_assets", arg |-> << >>]
    /\ UNCHANGED <<builder, validate, args, ret>>

NextLoad ==
    \/ Status
    \/ NotStatus
    \/ Title
    \/ Text
    \/ Texts
    \/ Header
    \/ HeaderValue
    \/ Redirect
    \/ Build
    \/ ValidateNone
    \/ ValidateAndLoadStaticAssets

SpecLoad == Init /\ [][NextLoad]_vars

----------------------------------------------------------------------------
\* C12: validate_and_load_static_assets returns what validate_page returns;
\* when that is an Err no static-asset request is made, and when it is
\* Ok(html) the requests are those of load_static_elements on that html.
C12_AssetsOnlyAfterOk ==
    (Validated /\ call.op = "validate_and_load_static_assets") =>
        /\ R = validate_page(G, V).result
        /\ failures = validate_page(G, V).failures
        /\ ~R.ok => requests = << >>
        /\ R.ok => /\ R.val = G.body[1]
                   /\ requests = load_static_elements(R.val)

\* A page that holds assets fails its validation: nothing is requested.
C12_Witness ==
    /\ Validated
    /\ call.op = "validate_and_load_static_assets"
    /\ Loaded
    /\ G.body[1] = AssetPage
    /\ load_static_elements(G.body[1]) # << >>
    /\ ~R.ok
    /\ requests = << >>

\* The same page passes its validation: its two assets are requested.
C12_Loads ==
    /\ Validated
    /\ call.op = "validate_and_load_static_assets"
    /\ R = Ok(AssetPage)
    /\ Len(requests) = 2

----------------------------------------------------------------------------
\* Decoding the HTML entity of "&" in a URL.
HtmlDecode(url) ==
    [i \in 1..Len(url) |-> IF url[i] = "&amp;" THEN "&" ELSE url[i]]

LoadedStaticElements == pc = "pure" /\ call.op = "load_static_elements"

\* C13: load_static_elements makes one request per local asset found in the
\* html, in order, and the URL it requests is the asset URL with its HTML
\* entities decoded.
C13_AssetsRequestedDecoded ==
    LoadedStaticElements =>
        LET found == get_src_elements(args[1]) \o get_css_elements(args[1])
        IN  /\ Len(requests) = Len(found)
            /\ \A i \in 1..Len(found) :
                  requests[i].url = HtmlDecode(found[i])

\* What does hold: one request per element found, with the URL as written.
AssetsRequestedAsWritten ==
    LoadedStaticElements =>
        LET found == get_src_elements(args[1]) \o get_css_elements(args[1])
        IN  [i \in 1..Len(requests) |-> requests[i].url] = found

----------------------------------------------------------------------------
\* The values of the attributes of a page that open with a token of attrs:
\* each runs to the double quote that closes it.
RECURSIVE AttrValues(_, _, _)
AttrValues(html, attrs, from) ==
    LET i == FirstIn(html, attrs, from)
        j == IF i = 0 THEN 0 ELSE FirstAt(html, "\"", i + 1)
    IN  IF i = 0 \/ j = 0
        THEN << >>
        ELSE <<SubSeq(html, i + 1, j - 1)>> \o AttrValues(html, attrs, j + 1)

IsAbsolute(url) == url # << >> /\ url[1] = "http://"

\* The host of an absolute URL: what stands between the scheme and the path.
HostOf(url) ==
    LET d == FirstIn(url, {"/", "?"}, 2)
    IN  IF d = 0 THEN Tail(url) ELSE SubSeq(url, 2, d - 1)

\* Local: an absolute URL on the host of base_url, or any relative path.
IsLocal(url) == IsAbsolute(url) => HostOf(url) = BaseHost

\* The URL names a .css file, a query string aside.
ReferencesCss(url) ==
    LET q == FirstAt(url, "?", 1)
        path == IF q = 0 THEN url ELSE SubSeq(url, 1, q - 1)
    IN  path # << >> /\ path[Len(path)] = ".css"

IsLocalCss(url) == IsLocal(url) /\ ReferencesCss(url)

\* C14: get_src_elements returns, in document order, exactly the src values
\* that are local, and get_css_elements exactly the href values that are
\* local and name a .css file.
C14_ExactlyLocalAssets ==
    /\ (pc = "pure" /\ call.op = "get_src_elements") =>
          ret = Some(SelectSeq(AttrValues(args[1], SrcAttrs, 1), IsLocal))
    /\ (pc = "pure" /\ call.op = "get_css_elements") =>
          ret = Some(SelectSeq(AttrValues(args[1], HrefAttrs, 1), IsLocalCss))

----------------------------------------------------------------------------
(* text.rs: random_word and random_words.  "x" stands for one random       *)
(* alphanumeric character; the random draws of gen_range are an input.     *)

MaxNumber == 5

\* rng.gen_range(3..12): the range is half open.
WordLenStart == 3
WordLenEnd == 12
WordLens == WordLenStart..(WordLenEnd - 1)

random_word(length) == [i \in 1..length |-> "x"]

\* [String]::join(sep)
RECURSIVE join(_, _)
join(words, sep) ==
    IF words = << >>
    THEN << >>
    ELSE IF Len(words) = 1
    THEN Head(words)
    ELSE Head(words) \o <<sep>> \o join(Tail(words), sep)

\* for _ in 1..number: one draw and one word for each of 1, ..., number - 1.
Draws(number) == [1..(number - 1) -> WordLens]

random_words(number, lens) ==
    LET words == [i \in 1..Len(lens) |-> random_word(lens[i])]
    IN  join(words, " ")

InitWords ==
    /\ builder = new
    /\ validate = None
    /\ goose = None
    /\ failures = << >>
    /\ result = None
    /\ call = NoCall
    /\ pc = "pure"
    /\ args \in {<<number>> : number \in 0..MaxNumber}
    /\ ret = None
    /\ requests = << >>

RunRandomWords ==
    /\ pc = "pure"
    /\ ret = None
    /\ \E lens \in Draws(args[1]) : ret' = Some(random_words(args[1], lens))
    /\ call' = [op |-> "random_words", arg |-> << >>]
    /\ UNCHANGED <<builder, validate, goose, failures, result, pc, args,
                   requests>>

NextWords == RunRandomWords

SpecWords == InitWords /\ [][NextWords]_vars

\* The words of a sentence: what stands between its spaces.
RECURSIVE Words(_)
Words(sentence) ==
    LET sp == FirstAt(sentence, " ", 1)
    IN  IF sentence = << >>
        THEN << >>
        ELSE IF sp = 0
        THEN <<sentence>>
        ELSE <<SubSeq(sentence, 1, sp - 1)>>
             \o Words(SubSeq(sentence, sp + 1, Len(sentence)))

RanRandomWords == pc = "pure" /\ call.op = "random_words"

\* C15: random_words(number) is a sentence of exactly number words of 3 to
\* 12 alphanumeric characters each, so its length is at least 3 * number
\* and at most 12 * number.
C15_NumberOfWords ==
    RanRandomWords =>
        LET number == args[1]
            sentence == ret[1]
            words == Words(sentence)
        IN  /\ Len(words) = number
            /\ \A i \in 1..Len(words) :
                  /\ Len(words[i]) >= 3
                  /\ Len(words[i]) <= 12
                  /\ \A k \in 1..Len(words[i]) : words[i][k] = "x"
            /\ Len(sentence) >= 3 * number
            /\ Len(sentence) <= 12 * number

\* What does hold: number - 1 words (none for 0) of 3 to 11 characters.
OneWordFewer ==
    RanRandomWords =>
        LET number == args[1]
            words == Words(ret[1])
        IN  /\ Len(words) = IF number = 0 THEN 0 ELSE number - 1
            /\ \A i \in 1..Len(words) : Len(words[i]) \in 3..11

\* The length bounds of the doc example hold from 5 words on.
LengthBoundsFromFive ==
    (RanRandomWords /\ args[1] >= 5) =>
        /\ Len(ret[1]) >= 3 * args[1]
        /\ Len(ret[1]) <= 12 * args[1]

----------------------------------------------------------------------------
(* drupal.rs: get_form.                                                    *)
(*                                                                         *)
(* A pattern is a sequence of sets of tokens; a text matches it at i when  *)
(* token i + k - 1 of the text is in set k of the pattern.  The tokens of  *)
(* a page with forms: "<form", "<input", ">", "</form>", the attribute     *)
(* names "data-drupal-selector=" and "id=", the double quote, a line feed  *)
(* and the characters "a", "b", "x", "y", "[", "]".                        *)

MaxForms == 2

MatchesAt(s, i, pat) ==
    /\ i + Len(pat) - 1 <= Len(s)
    /\ \A k \in 1..Len(pat) : s[i + k - 1] \in pat[k]

\* The index of the first match of pat in s at or after from, or 0.
FirstMatch(s, pat, from) ==
    IF \E i \in from..Len(s) : MatchesAt(s, i, pat)
    THEN CHOOSE i \in from..Len(s) :
            MatchesAt(s, i, pat) /\ \A j \in from..(i - 1) : ~MatchesAt(s, j, pat)
    ELSE 0

\* A text as a pattern: each character stands for itself.
Lit(str) == [k \in 1..Len(str) |-> {str[k]}]

\* A text put into a regular expression as it is: "[" c "]" is a class
\* that matches the one character c.
RECURSIVE Raw(_)
Raw(str) ==
    IF str = << >>
    THEN << >>
    ELSE IF Len(str) >= 3 /\ str[1] = "[" /\ str[3] = "]"
    THEN <<{str[2]}>> \o Raw(SubSeq(str, 4, Len(str)))
    ELSE <<{str[1]}>> \o Raw(Tail(str))

\* (data-drupal-selector|id)="{name}"
SelectorPattern(name) ==
    <<{"data-drupal-selector=", "id="}, {"\""}>> \o Raw(name) \o <<{"\""}>>

\* Regex <form.*?(data-drupal-selector|id)="{name}".*?>(.*?)</form> on the
\* html without its line feeds: from the leftmost "<form" on to the nearest
\* selector or id of that name, on to the nearest ">", and capture 2 is
\* what stands between that ">" and the nearest "</form>".
get_form(html, name) ==
    LET line == StripNewlines(html)
        i == FirstAt(line, "<form", 1)
        k == IF i = 0 THEN 0 ELSE FirstMatch(line, SelectorPattern(name), i + 1)
        g == IF k = 0
             THEN 0
             ELSE FirstAt(line, ">", k + Len(SelectorPattern(name)))
        e == IF g = 0 THEN 0 ELSE FirstAt(line, "</form>", g + 1)
    IN  IF e = 0 THEN << >> ELSE SubSeq(line, g + 1, e - 1)

\* Pages of at most MaxForms forms; a form has no name, a selector or an
\* id, and its body is text or an input that has a selector or an id.
FormNames == {<<"a">>, <<"b">>}

FormTags ==
    { <<"<form", ">">>,
      <<"<form", "data-drupal-selector=", "\"", "a", "\"", ">">>,
      <<"<form", "id=", "\"", "b", "\"", ">">> }

FormBodies ==
    { <<"x">>,
      <<"x", "\n", "y">>,
      <<"<input", "id=", "\"", "a", "\"", ">", "y">>,
      <<"y", "<input", "data-drupal-selector=", "\"", "b", "\"", ">">> }

FormElements == {tag \o body \o <<"</form>">> : tag \in FormTags, body \in FormBodies}

FormPages == {Flatten(fs) : fs \in SeqsUpTo(FormElements, MaxForms)}

InitForm ==
    /\ builder = new
    /\ validate = None
    /\ goose = None
    /\ failures = << >>
    /\ result = None
    /\ call = NoCall
    /\ pc = "pure"
    /\ args \in FormPages \X FormNames
    /\ ret = None
    /\ requests = << >>

RunGetForm ==
    /\ pc = "pure"
    /\ ret = None
    /\ ret' = Some(get_form(args[1], args[2]))
    /\ call' = [op |-> "get_form", arg |-> << >>]
    /\ UNCHANGED <<builder, validate, goose, failures, result, pc, args,
                   requests>>

NextForm == RunGetForm

SpecForm == InitForm /\ [][NextForm]_vars

\* The forms of a page: the attributes of each opening tag and the body.
RECURSIVE FormsOf(_, _)
FormsOf(html, from) ==
    LET i == FirstAt(html, "<form", from)
        g == IF i = 0 THEN 0 ELSE FirstAt(html, ">", i + 1)
        e == IF g = 0 THEN 0 ELSE FirstAt(html, "</form>", g + 1)
    IN  IF e = 0
        THEN << >>
        ELSE <<[tag |-> SubSeq(html, i + 1, g - 1),
                body |-> SubSeq(html, g + 1, e - 1)]>>
             \o FormsOf(html, e + 1)

\* The form has a data-drupal-selector or an id that equals name.
IsNamed(form, name) ==
    \E attr \in {"data-drupal-selector=", "id="} :
        Contains(form.tag, <<attr, "\"">> \o name \o <<"\"">>)

\* The body of the form of that name, line feeds aside, or the empty string.
NamedFormBody(html, name) ==
    LET forms == FormsOf(StripNewlines(html), 1)
        named == {n \in 1..Len(forms) : IsNamed(forms[n], name)}
    IN  IF named = {}
        THEN << >>
        ELSE forms[CHOOSE n \in named : \A m \in named : n <= m].body

RanGetForm == pc = "pure" /\ call.op = "get_form"

\* C16: get_form(html, name) is the inner html of the form whose
\* data-drupal-selector or id equals name, never content of another form,
\* and the empty string when no form has that name.
C16_OnlyTheNamedForm ==
    RanGetForm => ret = Some(NamedFormBody(args[1], args[2]))

\* What does hold: when some form has that name and no input of an earlier
\* form carries it, the result is the body of the named form.
NamedFormFound ==
    (RanGetForm /\ NamedFormBody(args[1], args[2]) # << >>) =>
        \/ ret = Some(NamedFormBody(args[1], args[2]))
        \/ \E f \in FormElements, b \in FormBodies :
              /\ Contains(args[1], f)
              /\ Contains(f, b)
              /\ Contains(b, <<"\"">> \o args[2] \o <<"\"">>)

----------------------------------------------------------------------------
(* drupal.rs: get_form_value, get_encoded_form_value, get_form_values and  *)
(* get_encoded_form_values.                                                *)
(*                                                                         *)
(* The tokens of a form: "<input", ">", a space, a line feed, the          *)
(* attribute names "name=" and "value=", the attribute "checked", the      *)
(* double quote, the single quote, the six characters of an encoded double *)
(* quote (backslash, u, 0, 0, 2, 2) as one token, and the characters "a",  *)
(* "b", "[", "]", "v", "w".  The string "none" is the one token "none".    *)

MaxInputs == 2

\* regex::escape(name): every character of name stands for itself.
escape(name) == Lit(name)

\* name="{}" value=['"] with the escaped name in place of {}.
ValuePattern(name) ==
    <<{"name="}, {"\""}>> \o escape(name)
    \o <<{"\""}, {" "}, {"value="}, {"\"", "'"}>>

\* re.captures of name="{}" value=['"](.*?)['"]: from the leftmost match
\* of the pattern on to the nearest quote of either kind, when no line
\* feed stands in between; capture 1 is what stands before that quote.
RECURSIVE value_capture(_, _, _)
value_capture(form_html, pat, from) ==
    LET i == FirstMatch(form_html, pat, from)
        v == i + Len(pat)
        j == IF i = 0 THEN 0 ELSE FirstIn(form_html, {"\"", "'"}, v)
        n == IF i = 0 THEN 0 ELSE FirstAt(form_html, "\n", v)
    IN  IF i = 0 \/ j = 0
        THEN None
        ELSE IF n # 0 /\ n < j
        THEN value_capture(form_html, pat, i + 1)
        ELSE Some(SubSeq(form_html, v, j - 1))

get_form_value(form_html, name) ==
    LET v == value_capture(form_html, ValuePattern(name), 1)
    IN  IF v = None THEN <<"none">> ELSE v[1]

\* form_html.replace("\\u0022", "\"")
replace_u0022(form_html) ==
    [i \in 1..Len(form_html) |->
        IF form_html[i] = "\\u0022" THEN "\"" ELSE form_html[i]]

get_encoded_form_value(form_html, name) ==
    LET decoded_form == replace_u0022(form_html)
    IN  get_form_value(decoded_form, name)

\* The elements of a slice, the keys of the HashMap.
Range(elements) == {elements[i] : i \in 1..Len(elements)}

get_form_values(form, elements) ==
    [element \in Range(elements) |-> get_form_value(form, element)]

get_encoded_form_values_undecoded(form, elements) ==
    [element \in Range(elements) |-> get_form_value(form, element)]

get_encoded_form_values(form, elements) ==
    LET decoded_form == replace_u0022(form)
    IN  [element \in Range(elements) |-> get_form_value(decoded_form, element)]

\* Forms of at most MaxInputs inputs.  An input has a name, perhaps the
\* attribute checked, and a value; its quotes are double, single around
\* the value, or encoded.
FieldNames == {<<"a">>, <<"a", "[", "b", "]">>}

Quoted ==
    { [nq |-> "\"", vq |-> "\"", val |-> << >>],
      [nq |-> "\"", vq |-> "\"", val |-> <<"v">>],
      [nq |-> "\"", vq |-> "\"", val |-> <<"v", "'", "w">>],
      [nq |-> "\"", vq |-> "'", val |-> <<"w">>],
      [nq |-> "\\u0022", vq |-> "\\u0022", val |-> << >>],
      [nq |-> "\\u0022", vq |-> "\\u0022", val |-> <<"v">>] }

Inputs ==
    { <<"<input", " ", "name=", q.nq>> \o name \o <<q.nq>> \o mid
      \o <<" ", "value=", q.vq>> \o q.val \o <<q.vq, ">">> :
        name \in FieldNames, q \in Quoted, mid \in {<< >>, <<" ", "checked">>} }

Forms == {Flatten(es) : es \in SeqsUpTo(Inputs, MaxInputs)}

ElementLists ==
    { << >>,
      <<<<"a">>>>,
      <<<<"a">>, <<"a", "[", "b", "]">>>>,
      <<<<"a", "[", "b", "]">>, <<"a">>>>,
      <<<<"a">>, <<"a">>>> }

InitValue ==
    /\ builder = new
    /\ validate = None
    /\ goose = None
    /\ failures = << >>
    /\ result = None
    /\ call = NoCall
    /\ pc = "pure"
    /\ args \in {<<form>> : form \in Forms}
    /\ ret = None
    /\ requests = << >>

Ran(op, arg, value) ==
    /\ pc = "pure"
    /\ ret = None
    /\ ret' = Some(value)
    /\ call' = [op |-> op, arg |-> arg]
    /\ UNCHANGED <<builder, validate, goose, failures, result, pc, args,
                   requests>>

RunGetFormValue ==
    \E name \in FieldNames :
        Ran("get_form_value", name, get_form_value(args[1], name))

RunGetEncodedFormValue ==
    \E name \in FieldNames :
        Ran("get_encoded_form_value", name,
            get_encoded_form_value(args[1], name))

RunGetFormValues ==
    \E elements \in ElementLists :
        Ran("get_form_values", elements, get_form_values(args[1], elements))

RunGetEncodedFormValues ==
    \E elements \in ElementLists :
        Ran("get_encoded_form_values", elements,
            get_encoded_form_values(args[1], elements))

NextValue ==
    \/ RunGetFormValue
    \/ RunGetEncodedFormValue
    \/ RunGetFormValues
    \/ RunGetEncodedFormValues

SpecValue == InitValue /\ [][NextValue]_vars

----------------------------------------------------------------------------
\* The inputs of a form: what stands between each "<input" and its ">".
RECURSIVE InputsOf(_, _)
InputsOf(form, from) ==
    LET i == FirstAt(form, "<input", from)
        g == IF i = 0 THEN 0 ELSE FirstAt(form, ">", i + 1)
    IN  IF g = 0
        THEN << >>
        ELSE <<SubSeq(form, i + 1, g - 1)>> \o InputsOf(form, g + 1)

\* The value of an attribute of an input: what stands between the quote
\* that follows the attribute name and the next quote of the same kind.
AttrOf(input, attr) ==
    LET i == FirstAt(input, attr, 1)
        j == IF i = 0 \/ i + 1 > Len(input)
             THEN 0
             ELSE FirstAt(input, input[i + 1], i + 2)
    IN  IF j = 0 THEN None ELSE Some(SubSeq(input, i + 2, j - 1))

\* The value attribute of the first input whose name attribute is name, or
\* "none" when there is no such input.
ValueOfFirstNamed(form, name) ==
    LET inputs == InputsOf(form, 1)
        named == {n \in 1..Len(inputs) : AttrOf(inputs[n], "name=") = Some(name)}
        first == CHOOSE n \in named : \A m \in named : n <= m
    IN  IF named = {} \/ AttrOf(inputs[first], "value=") = None
        THEN <<"none">>
        ELSE AttrOf(inputs[first], "value=")[1]

\* A form as html: none of its quotes is encoded.
IsPlain(form) == \A i \in 1..Len(form) : form[i] # "\\u0022"

RanGetFormValue == pc = "pure" /\ call.op = "get_form_value"

\* C17: get_form_value(form_html, name) is the value attribute of the
\* first element whose name attribute is exactly name, the string "none"
\* when the form has no such element, and the empty string for value="".
C17_ValueOfFirstNamed ==
    (RanGetFormValue /\ IsPlain(args[1])) =>
        ret = Some(ValueOfFirstNamed(args[1], call.arg))

\* The value follows the name at once and holds no quote of either kind.
ValueFollowsName(form) ==
    /\ ~Contains(form, <<"checked">>)
    /\ ~Contains(form, <<"v", "'", "w">>)

\* What does hold: the claim, of the forms whose values follow their names
\* at once and hold no quote.
ValueOfFirstNamedAdjacent ==
    (RanGetFormValue /\ IsPlain(args[1]) /\ ValueFollowsName(args[1])) =>
        ret = Some(ValueOfFirstNamed(args[1], call.arg))

----------------------------------------------------------------------------
\* A form with every encoded double quote replaced by a double quote.
RECURSIVE Decoded(_)
Decoded(form) ==
    IF form = << >>
    THEN << >>
    ELSE <<IF Head(form) = "\\u0022" THEN "\"" ELSE Head(form)>>
         \o Decoded(Tail(form))

\* C18: get_encoded_form_value(f, n) is get_form_value of the decoded f,
\* and get_encoded_form_values(f, names) maps each name n of names to
\* get_encoded_form_value(f, n).
C18_EncodedAgreesWithPlain ==
    /\ (pc = "pure" /\ call.op = "get_encoded_form_value") =>
          ret = Some(get_form_value(Decoded(args[1]), call.arg))
    /\ (pc = "pure" /\ call.op = "get_encoded_form_values") =>
          /\ DOMAIN ret[1] = Range(call.arg)
          /\ \A n \in Range(call.arg) :
                ret[1][n] = get_encoded_form_value(args[1], n)

\* Two names asked of a form with an encoded input: its value is found.
C18_Witness ==
    /\ pc = "pure"
    /\ call.op = "get_encoded_form_values"
    /\ ~IsPlain(args[1])
    /\ Cardinality(Range(call.arg)) = 2
    /\ ret[1][<<"a">>] = <<"v">>
    /\ ret[1][<<"a", "[", "b", "]">>] = <<"none">>

====
